---- MODULE Spec2Model ----
(***************************************************************************)
(* Marble world (code/python/model.py): a fixed-timestep simulation of     *)
(* marbles in a walled arena with an exit gap in the left wall.            *)
(*                                                                         *)
(* Lengths are integers (arena units), velocities are integers in units    *)
(* per second, the timestep is the rational step_size_num/step_size_den.   *)
(* The physics engine behind space.step is modelled by its step order:     *)
(* integrate positions, detect contacts (calling the `begin` handlers for  *)
(* contacts that start), run every body's velocity function, then resolve  *)
(* the contacts.  Contact resolution is that of equal masses and           *)
(* elasticity 1 along the axes: a marble's velocity components that point  *)
(* into a wall are reflected, two approaching marbles exchange their       *)
(* velocities.  The engine's slow push that separates overlapping shapes   *)
(* is left out: overlapping bodies stay in contact until they move apart.  *)
(* Which marble of a pair the engine lists first is left open, and so is   *)
(* the value of each gauss call, taken from a small set of factors.        *)
(***************************************************************************)
EXTENDS Integers, Sequences, FiniteSets, TLC

(***************************************************************************)
(* World constants (class attributes of MarbleWorld).                      *)
(***************************************************************************)
full_length == 800
full_height == 600
marble_size == 60
speed == 200
step_size_num == 1
step_size_den == 50
time_max == 15
step_max == (time_max * step_size_den) \div step_size_num
default_velocity_noise == 50   \* standard deviation 0.05, in thousandths
wall_thickness == 20
exit_portion_num == 1
exit_portion_den == 3
exit_position == <<wall_thickness \div 2, full_height \div 2>>

side_wall_height ==
    (full_height * (exit_portion_den - exit_portion_num)) \div (2 * exit_portion_den)

default_walls ==
    << [name |-> "top_wall",
        position |-> <<full_length \div 2, full_height - wall_thickness \div 2>>,
        length |-> full_length, height |-> wall_thickness],
       [name |-> "bottom_wall",
        position |-> <<full_length \div 2, wall_thickness \div 2>>,
        length |-> full_length, height |-> wall_thickness],
       [name |-> "top_left_wall",
        position |-> <<wall_thickness \div 2, full_height - side_wall_height \div 2>>,
        length |-> wall_thickness, height |-> side_wall_height],
       [name |-> "bottom_left_wall",
        position |-> <<wall_thickness \div 2, side_wall_height \div 2>>,
        length |-> wall_thickness, height |-> side_wall_height],
       [name |-> "exit",
        position |-> exit_position,
        length |-> wall_thickness,
        height |-> (full_height * exit_portion_num) \div exit_portion_den] >>

\* the squared distance between a position and the centre of the exit
exit_dist(pos) ==
    (exit_position[1] - pos[1]) * (exit_position[1] - pos[1])
    + (exit_position[2] - pos[2]) * (exit_position[2] - pos[2])

(***************************************************************************)
(* Bounds of the model: the inputs a world is constructed from.            *)
(***************************************************************************)
MaxSched == 0       \* scheduled steps -1, 0..MaxSched, step_max, step_max + 1
MaxNoiseNum == 2    \* a noise factor is k * 50 percent for k in 1..MaxNoiseNum

\* the order of the bodies in the world (an OrderedDict keyed by name)
NameOrder == <<"A", "E", "top_wall">>
Names == {NameOrder[i] : i \in 1..Len(NameOrder)}
Index(n) == CHOOSE i \in 1..Len(NameOrder) : NameOrder[i] = n

VARIABLES
    marbles,                \* the marble configuration the world was built from
    walls,                  \* self.walls: default_walls + extra_walls
    path_record_bodies,     \* names whose trajectory is recorded
    outcome_record_bodies,  \* names whose outcome is tracked
    velocity_noise,         \* MarbleWorld.velocity_noise, in thousandths
    step,                   \* self.step
    events,                 \* self.events
    bodies,                 \* self.bodies: name -> [position, velocity]
    contacts,               \* the touching pairs the space remembers
    paths,                  \* the local `paths` of simulate
    launch_log,             \* history: the launch impulses applied
    noise_log,              \* history: the noise multiplications applied
    pc,                     \* "constructed", "loop" or "done"
    constructed_noise,      \* history: velocity_noise when the world was built
    twin,                   \* a second world built from the same configuration
    sweep                   \* the locals of run_all and its position

vars == <<marbles, walls, path_record_bodies, outcome_record_bodies,
          velocity_noise, step, events, bodies, contacts, paths,
          launch_log, noise_log, pc, constructed_noise, twin, sweep>>

\* what simulate never writes: the history of the construction, the second
\* world, the caller's sweep
outside == <<constructed_noise, twin, sweep>>

config == <<marbles, walls, path_record_bodies, outcome_record_bodies,
            velocity_noise>>

(***************************************************************************)
(* Vectors and geometry.                                                   *)
(***************************************************************************)
VecAdd(a, b) == <<a[1] + b[1], a[2] + b[2]>>
VecSub(a, b) == <<a[1] - b[1], a[2] - b[2]>>
VecScale(k, a) == <<k * a[1], k * a[2]>>
Dot(a, b) == a[1] * b[1] + a[2] * b[2]
Clamp(x, lo, hi) == IF x < lo THEN lo ELSE IF x > hi THEN hi ELSE x

\* the point of the box of wall w nearest to position p
Nearest(w, p) ==
    <<Clamp(p[1], w.position[1] - w.length \div 2, w.position[1] + w.length \div 2),
      Clamp(p[2], w.position[2] - w.height \div 2, w.position[2] + w.height \div 2)>>

marble_radius == marble_size \div 2

\* a circle of radius marble_size/2 at p overlaps the box of wall w
TouchesWall(p, w) ==
    LET d == VecSub(p, Nearest(w, p))
    IN  Dot(d, d) < marble_radius * marble_radius

\* two circles of radius marble_size/2 overlap
TouchesMarble(p, q) ==
    LET d == VecSub(p, q)
    IN  Dot(d, d) < marble_size * marble_size

(***************************************************************************)
(* Construction: add_wall and add_marble.                                  *)
(***************************************************************************)
\* the wall specs that become static bodies: every one but the exit
\* a world in which every wall is a body
StaticWallsAll(ws) == ws

StaticWalls(ws) == SelectSeq(ws, LAMBDA w : w.name # "exit")

\* a new marble rests at its position; `velocity` is its launch velocity
add_marble(m) == [position |-> m.position, velocity |-> <<0, 0>>]

(***************************************************************************)
(* The velocity function of a marble, called once per space step.          *)
(***************************************************************************)
damping == 1
gravity == <<0, 0>>
mass == 1

update_velocity(v) ==
    <<v[1] * damping + (gravity[1] * step_size_num) \div step_size_den,
      v[2] * damping + (gravity[2] * step_size_num) \div step_size_den>>

\* apply_impulse_at_local_point at the centre of a body of angle 0
apply_impulse(v, j) == <<v[1] + j[1] \div mass, v[2] + j[2] \div mass>>

\* a launch that fires at every step from the launch step on
LaunchFiresFrom(s, delay) == s >= delay

LaunchFires(s, delay) == s = delay

\* a noise that fires at every step from the noise step on
NoiseFiresFrom(s, noisy) == s >= noisy

NoiseFires(s, noisy) == s = noisy

\* the values gauss(1, sigma) may return, in percent
Gauss(sigma) == IF sigma = 0 THEN {100} ELSE {50 * k : k \in 1..MaxNoiseNum}

\* a velocity function that scales before it launches
delayed_velocity_noise_first(v, m, s, g) ==
    LET v0 == update_velocity(v)
        v1 == IF NoiseFires(s, m.noisy)
              THEN <<(v0[1] * g[1]) \div 100, (v0[2] * g[2]) \div 100>>
              ELSE v0
    IN  IF LaunchFires(s, m.delay)
        THEN apply_impulse(v1, VecScale(speed, m.velocity))
        ELSE v1

\* delayed_velocity: v the body's velocity, m its marble spec, s self.step,
\* g the pair of values the two gauss calls return
delayed_velocity(v, m, s, g) ==
    LET v0 == update_velocity(v)
        v1 == IF LaunchFires(s, m.delay)
              THEN apply_impulse(v0, VecScale(speed, m.velocity))
              ELSE v0
    IN  IF NoiseFires(s, m.noisy)
        THEN <<(v1[1] * g[1]) \div 100, (v1[2] * g[2]) \div 100>>
        ELSE v1

\* the gauss draws of one space step: one pair per marble whose noise fires
NoiseDraws(ms, s, sigma) ==
    IF \A n \in DOMAIN ms : ~NoiseFires(s, ms[n].noisy)
    THEN {[n \in DOMAIN ms |-> <<100, 100>>]}
    ELSE {g \in [DOMAIN ms -> Gauss(sigma) \X Gauss(sigma)] :
            \A n \in DOMAIN ms :
                ~NoiseFires(s, ms[n].noisy) => g[n] = <<100, 100>>}

(***************************************************************************)
(* One space step: positions, contacts, velocities, contact resolution.    *)
(***************************************************************************)
UpdatePositions(bs) ==
    [n \in DOMAIN bs |->
        [bs[n] EXCEPT !.position =
            <<@[1] + (bs[n].velocity[1] * step_size_num) \div step_size_den,
              @[2] + (bs[n].velocity[2] * step_size_num) \div step_size_den>>]]

\* the touching pairs: marble and static wall (by index), marble and marble
Touching(bs, statics) ==
    [static |-> {c \in (DOMAIN bs) \X (1..Len(statics)) :
                    TouchesWall(bs[c[1]].position, statics[c[2]])},
     dynamic |-> {c \in (DOMAIN bs) \X (DOMAIN bs) :
                    /\ Index(c[1]) < Index(c[2])
                    /\ TouchesMarble(bs[c[1]].position, bs[c[2]].position)}]

\* handlers that run in every step in which a pair touches
BegunEveryStep(now, before) == now

\* the pairs whose contact starts in this step: touching now, not before.
\* The handlers are registered as `begin` callbacks, so they run for these.
Begun(now, before) == now \ before

StaticKey(c) == Index(c[1]) * 1000 + c[2]
DynamicKey(c) == Index(c[1]) * 1000 + Index(c[2])

\* the order in which the pairs of one step are handled
RECURSIVE StaticOrder(_)
StaticOrder(S) ==
    IF S = {} THEN <<>>
    ELSE LET c == CHOOSE x \in S : \A y \in S : StaticKey(x) <= StaticKey(y)
         IN  <<c>> \o StaticOrder(S \ {c})

RECURSIVE DynamicOrder(_)
DynamicOrder(S) ==
    IF S = {} THEN <<>>
    ELSE LET c == CHOOSE x \in S : \A y \in S : DynamicKey(x) <= DynamicKey(y)
         IN  <<c>> \o DynamicOrder(S \ {c})

\* a marble meeting a wall: the velocity components that point into the
\* wall are reflected (elasticity 1)
ResolveWall(b, w) ==
    LET n == VecSub(b.position, Nearest(w, b.position))
        v == b.velocity
    IN  [b EXCEPT !.velocity =
            <<IF n[1] * v[1] < 0 THEN -v[1] ELSE v[1],
              IF n[2] * v[2] < 0 THEN -v[2] ELSE v[2]>>]

RECURSIVE ResolveWalls(_, _, _)
ResolveWalls(bs, cs, statics) ==
    IF cs = <<>> THEN bs
    ELSE LET c == Head(cs)
         IN  ResolveWalls([bs EXCEPT ![c[1]] = ResolveWall(@, statics[c[2]])],
                          Tail(cs), statics)

\* two approaching marbles of equal mass and elasticity 1 exchange velocity
RECURSIVE ResolveMarbles(_, _)
ResolveMarbles(bs, cs) ==
    IF cs = <<>> THEN bs
    ELSE LET a == Head(cs)[1]
             b == Head(cs)[2]
             approaching ==
                 Dot(VecSub(bs[a].velocity, bs[b].velocity),
                     VecSub(bs[a].position, bs[b].position)) < 0
             next == IF approaching
                     THEN [bs EXCEPT ![a].velocity = bs[b].velocity,
                                     ![b].velocity = bs[a].velocity]
                     ELSE bs
         IN  ResolveMarbles(next, Tail(cs))

(***************************************************************************)
(* The collision handlers and the sampling of simulate.                    *)
(***************************************************************************)
\* a handler that puts the new entry first
marble_collision_front(ev, objects, s) ==
    [ev EXCEPT !.collisions = <<[objects |-> objects, step |-> s]>> \o @]

\* a handler that reads the counter after it was incremented
marble_collision_next(ev, objects, s) ==
    [ev EXCEPT !.collisions = Append(@, [objects |-> objects, step |-> s + 1])]

marble_collision(ev, objects, s) ==
    [ev EXCEPT !.collisions = Append(@, [objects |-> objects, step |-> s])]

\* a wall handler that files its entry with the marble collisions
wall_collision_as_marble(ev, objects, s) ==
    [ev EXCEPT !.collisions = Append(@, [objects |-> objects, step |-> s])]

wall_collision(ev, objects, s) ==
    [ev EXCEPT !.wall_bounces = Append(@, [objects |-> objects, step |-> s])]

\* what the two handlers return: the space goes on to solve the contact
marble_collision_returns == TRUE
wall_collision_returns == TRUE

\* the contacts the solver works on: those of a pair whose begin handler
\* returned true
Solved(cs, returned) == IF returned THEN cs ELSE <<>>

\* the begin handler runs for every marble pair that starts to touch;
\* first[i] says which marble of pair i the arbiter lists first
RECURSIVE BeginDynamic(_, _, _, _)
BeginDynamic(ev, cs, first, s) ==
    IF cs = <<>> THEN ev
    ELSE LET c == cs[Len(cs)]
             objects == IF first[Len(cs)] = 1 THEN <<c[1], c[2]>> ELSE <<c[2], c[1]>>
         IN  marble_collision(BeginDynamic(ev, SubSeq(cs, 1, Len(cs) - 1), first, s),
                              objects, s)

\* the begin handler runs for every marble and wall that start to touch
RECURSIVE BeginStatic(_, _, _, _)
BeginStatic(ev, cs, statics, s) ==
    IF cs = <<>> THEN ev
    ELSE LET c == cs[Len(cs)]
         IN  wall_collision(BeginStatic(ev, SubSeq(cs, 1, Len(cs) - 1), statics, s),
                            <<c[1], statics[c[2]].name>>, s)

Put(d, k, v) == [x \in DOMAIN d \cup {k} |-> IF x = k THEN v ELSE d[x]]

\* append the position and velocity of every body on the recording list
RECURSIVE RecordPaths(_, _, _)
RecordPaths(ps, bs, names) ==
    IF names = <<>> THEN ps
    ELSE LET n == Head(names)
         IN  RecordPaths([ps EXCEPT ![n].position = Append(@, bs[n].position),
                                    ![n].velocity = Append(@, bs[n].velocity)],
                         bs, Tail(names))

\* a tracker that keeps the last sample
MinDistLast(old, d) == d

\* the minimum distance so far, with the sample d taken in
MinDist(old, d) == IF d < old THEN d ELSE old

RECURSIVE SampleDists(_, _, _)
SampleDists(dists, bs, names) ==
    IF names = <<>> THEN dists
    ELSE LET n == Head(names)
         IN  SampleDists([dists EXCEPT ![n] = MinDist(@, exit_dist(bs[n].position))],
                         bs, Tail(names))

\* the value outcome_dists starts from
InitialDist == full_length * full_length

RECURSIVE InitDists(_, _)
InitDists(dists, names) ==
    IF names = <<>> THEN dists
    ELSE InitDists(Put(dists, Head(names), InitialDist), Tail(names))

RECURSIVE InitPaths(_, _)
InitPaths(ps, names) ==
    IF names = <<>> THEN ps
    ELSE InitPaths(Put(ps, Head(names), [position |-> <<>>, velocity |-> <<>>]),
                   Tail(names))

\* an outcome that leaves out the line itself
PassedBeyond(pos) == ~(pos[1] >= -(marble_size \div 2))

\* the outcome of a body whose final position is pos
Passed(pos) == ~(pos[1] > -(marble_size \div 2))

\* an outcome for every body of the world, tracked or not
OutcomesAll(out, bs, names) == [n \in DOMAIN bs |-> Passed(bs[n].position)]

RECURSIVE Outcomes(_, _, _)
Outcomes(out, bs, names) ==
    IF names = <<>> THEN out
    ELSE Outcomes(Put(out, Head(names), Passed(bs[Head(names)].position)),
                  bs, Tail(names))

\* a loop that stops one step short
RunningBelow(s) == s < step_max

\* the loop condition of simulate
Running(s) == s <= step_max

(***************************************************************************)
(* The inputs: a world of one marble, and a world of two marbles.          *)
(***************************************************************************)
Velocities == {<<-1, 0>>, <<-1, 1>>}
Scheds == {-1} \cup (0..MaxSched) \cup {step_max, step_max + 1}

\* one marble: in front of the exit, in the far corner, at the exit line
LonePositions == {<<302, 300>>, <<790, 60>>, <<-30, 300>>, <<-29, 300>>}

LoneWorlds ==
    {[n \in {"E"} |-> m] :
        m \in [position : LonePositions, velocity : {<<-1, 0>>, <<0, 1>>},
               delay : Scheds, noisy : Scheds]}

\* two marbles in a row, A to the right of E, apart or overlapping; the row
\* leads to the exit (y = 300) or to the bottom left wall (y = 100)
PairWorlds ==
    {[n \in {"A", "E"} |->
        IF n = "A"
        THEN [position |-> <<ax, y>>, velocity |-> av, delay |-> ad, noisy |-> an]
        ELSE [position |-> <<300, y>>, velocity |-> <<-1, 0>>, delay |-> ed,
              noisy |-> -1]] :
        ax \in {500, 340}, y \in {300, 100}, av \in Velocities,
        ad \in 0..MaxSched, an \in {-1, 0}, ed \in {-1, 0}}

\* no second world, no sweep
NoTwin == <<>>
NoSweep == [pc |-> "none"]

\* a world as simulate sees it
World == [step |-> step, events |-> events, bodies |-> bodies,
          contacts |-> contacts, paths |-> paths]

\* the world MarbleWorld(ms, ...) returns
NewWorld(ms) ==
    [step |-> 0,
     events |-> [collisions |-> <<>>, wall_bounces |-> <<>>,
                 outcome |-> <<>>, outcome_dists |-> <<>>],
     bodies |-> [n \in DOMAIN ms |-> add_marble(ms[n])],
     contacts |-> [static |-> {}, dynamic |-> {}],
     paths |-> <<>>]

\* the state after MarbleWorld(ms, extra_walls, ...) with the two recording
\* lists, built while MarbleWorld.velocity_noise is noise
Built(ms, extra_walls, record_paths, record_outcomes, noise) ==
    /\ marbles = ms
    /\ walls = default_walls \o extra_walls
    /\ path_record_bodies = record_paths
    /\ outcome_record_bodies = record_outcomes
    /\ velocity_noise = noise
    /\ constructed_noise = noise
    /\ step = NewWorld(ms).step
    /\ events = NewWorld(ms).events
    /\ bodies = NewWorld(ms).bodies
    /\ contacts = NewWorld(ms).contacts
    /\ paths = NewWorld(ms).paths
    /\ launch_log = <<>>
    /\ noise_log = <<>>
    /\ pc = "constructed"

\* a single world, outside any sweep
ConstructedWith(ms, extra_walls, record_paths, record_outcomes, noise) ==
    /\ Built(ms, extra_walls, record_paths, record_outcomes, noise)
    /\ twin = NoTwin
    /\ sweep = NoSweep

\* the same with no extra walls and the noise of the class as it is loaded
Constructed(ms, record_paths, record_outcomes) ==
    ConstructedWith(ms, <<>>, record_paths, record_outcomes, default_velocity_noise)

Init == \E ms \in LoneWorlds : Constructed(ms, <<"E">>, <<"E">>)

PairInit == \E ms \in PairWorlds : Constructed(ms, <<"A">>, <<"E">>)

(***************************************************************************)
(* simulate.                                                               *)
(***************************************************************************)
SimulateBegin ==
    /\ pc = "constructed"
    /\ paths' = InitPaths(<<>>, path_record_bodies)
    /\ events' = [events EXCEPT
                    !.outcome_dists = InitDists(@, outcome_record_bodies)]
    /\ pc' = "loop"
    /\ UNCHANGED <<config, step, bodies, contacts, launch_log, noise_log, outside>>

LoopIteration ==
    /\ pc = "loop"
    /\ Running(step)
    /\ LET statics == StaticWalls(walls)
           sampled == RecordPaths(paths, bodies, path_record_bodies)
           dists == SampleDists(events.outcome_dists, bodies, outcome_record_bodies)
           moved == UpdatePositions(bodies)
           touching == Touching(moved, statics)
           begun_static == StaticOrder(Begun(touching.static, contacts.static))
           begun_dynamic == DynamicOrder(Begun(touching.dynamic, contacts.dynamic))
           launching == SelectSeq(NameOrder, LAMBDA n :
                            n \in DOMAIN marbles /\ LaunchFires(step, marbles[n].delay))
           noising == SelectSeq(NameOrder, LAMBDA n :
                            n \in DOMAIN marbles /\ NoiseFires(step, marbles[n].noisy))
       IN  \E g \in NoiseDraws(marbles, step, velocity_noise),
              first \in [1..Len(begun_dynamic) -> {1, 2}] :
              LET logged == BeginStatic(
                                BeginDynamic([events EXCEPT !.outcome_dists = dists],
                                             begun_dynamic, first, step),
                                begun_static, statics, step)
                  pushed == [n \in DOMAIN moved |->
                                [moved[n] EXCEPT !.velocity =
                                    delayed_velocity(@, marbles[n], step, g[n])]]
                  resolved == ResolveMarbles(
                                  ResolveWalls(pushed,
                                               Solved(StaticOrder(touching.static),
                                                      wall_collision_returns),
                                               statics),
                                  Solved(DynamicOrder(touching.dynamic),
                                         marble_collision_returns))
              IN  /\ paths' = sampled
                  /\ events' = logged
                  /\ bodies' = resolved
                  /\ contacts' = touching
                  /\ launch_log' = launch_log \o
                        [i \in 1..Len(launching) |->
                            [name |-> launching[i], step |-> step,
                             before |-> moved[launching[i]].velocity,
                             after |-> pushed[launching[i]].velocity,
                             noise |-> IF NoiseFires(step, marbles[launching[i]].noisy)
                                       THEN g[launching[i]] ELSE <<100, 100>>]]
                  /\ noise_log' = noise_log \o
                        [i \in 1..Len(noising) |->
                            [name |-> noising[i], step |-> step,
                             sigma |-> velocity_noise]]
                  /\ step' = step + 1
    /\ UNCHANGED <<config, pc, outside>>

\* a loop that is also left as soon as a tracked body is through the exit
SimulateEndEarly ==
    /\ pc = "loop"
    /\ \/ ~Running(step)
       \/ \E i \in 1..Len(outcome_record_bodies) :
             Passed(bodies[outcome_record_bodies[i]].position)
    /\ events' = [events EXCEPT
                    !.outcome = Outcomes(@, bodies, outcome_record_bodies)]
    /\ pc' = "done"
    /\ UNCHANGED <<config, step, bodies, contacts, paths, launch_log, noise_log,
                   outside>>

SimulateEnd ==
    /\ pc = "loop"
    /\ ~Running(step)
    /\ events' = [events EXCEPT
                    !.outcome = Outcomes(@, bodies, outcome_record_bodies)]
    /\ pc' = "done"
    /\ UNCHANGED <<config, step, bodies, contacts, paths, launch_log, noise_log,
                   outside>>

Next == SimulateBegin \/ LoopIteration \/ SimulateEnd

Spec == Init /\ [][Next]_vars

PairSpec == PairInit /\ [][Next]_vars

\* A run is a single thread: a run that can take a step takes it. The
\* worlds are those in which A is sent along the exit row towards E.
ExitRowWorlds ==
    {ms \in PairWorlds :
        /\ ms["A"].position = <<500, 300>>
        /\ ms["A"].delay = 0
        /\ ms["A"].noisy = -1}

FairInit == \E ms \in ExitRowWorlds : Constructed(ms, <<"A">>, <<"E">>)

FairSpec == FairInit /\ [][Next]_vars /\ WF_vars(Next)

(***************************************************************************)
(* Worlds with extra walls, marbles of any name and any recording lists.   *)
(***************************************************************************)
\* the extra wall of the third experiment
obstacle == [name |-> "obstacle", position |-> <<595, 155>>,
             length |-> 410, height |-> 20]

\* extra_walls: none, the obstacle, a wall named like a default wall, a wall
\* named like the exit
ExtraWallSets ==
    {<<>>, <<obstacle>>, <<[obstacle EXCEPT !.name = "top_wall"]>>,
     <<[obstacle EXCEPT !.name = "exit"]>>}

\* one launched marble, named E or like a wall, sent through the exit or up
\* under the obstacle
NamedWorlds ==
    {[n \in {nm} |-> [position |-> k[1], velocity |-> k[2], delay |-> 0,
                      noisy |-> -1]] :
        nm \in {"E", "top_wall"},
        k \in {<<(<<302, 300>>), (<<-1, 0>>)>>, <<(<<790, 60>>), (<<0, 1>>)>>}}

\* the lists of distinct names of the marbles ms, up to two names long
Records(ms) ==
    {<<>>} \cup {<<n>> : n \in DOMAIN ms}
           \cup {<<c[1], c[2]>> : c \in {d \in (DOMAIN ms) \X (DOMAIN ms) : d[1] # d[2]}}

WallInit ==
    \/ \E ms \in NamedWorlds, extra \in ExtraWallSets :
          \E record_paths \in {r \in Records(ms) : Len(r) <= 1},
             record_outcomes \in Records(ms) :
             ConstructedWith(ms, extra, record_paths, record_outcomes,
                             default_velocity_noise)
    \/ \E ms \in ExitRowWorlds :
          \E record_paths \in {r \in Records(ms) : Len(r) <= 1},
             record_outcomes \in Records(ms) :
             /\ ms["A"].velocity = <<-1, 0>>
             /\ ms["E"].delay = -1
             /\ ConstructedWith(ms, <<>>, record_paths, record_outcomes,
                                default_velocity_noise)

WallSpec == WallInit /\ [][Next]_vars

(***************************************************************************)
(* Worlds under a noise sweep. MarbleWorld.velocity_noise is an attribute  *)
(* of the class: noise_vs_failure assigns it for each sweep, and a world   *)
(* reads it when the noise of a marble fires.                              *)
(***************************************************************************)
\* two of the magnitudes noise_vs_failure sweeps over, in thousandths
NoiseLevels == {0, default_velocity_noise}

\* one marble in front of the exit; its noise fires with the launch or never
NoisyWorlds ==
    {[n \in {"E"} |-> [position |-> <<302, 300>>, velocity |-> v, delay |-> d,
                       noisy |-> ns]] :
        v \in Velocities,
        d \in (0..MaxSched) \cup {step_max},
        ns \in {-1} \cup (0..MaxSched) \cup {step_max}}

NoiseInit ==
    \E ms \in NoisyWorlds, noise \in NoiseLevels :
        /\ ms["E"].noisy \in {-1, ms["E"].delay}
        /\ ConstructedWith(ms, <<>>, <<"E">>, <<"E">>, noise)

\* MarbleWorld.velocity_noise = noise, by a sweep that runs beside the world
SetVelocityNoise ==
    /\ pc # "done"
    /\ \E noise \in NoiseLevels \ {velocity_noise} : velocity_noise' = noise
    /\ UNCHANGED <<marbles, walls, path_record_bodies, outcome_record_bodies,
                   step, events, bodies, contacts, paths, launch_log,
                   noise_log, pc, outside>>

NoiseNext == Next \/ SetVelocityNoise

NoiseSpec == NoiseInit /\ [][NoiseNext]_vars

(***************************************************************************)
(* Two worlds built from the same configuration and run side by side. The  *)
(* space is the same engine in both, so it lists the shapes of a pair in   *)
(* the same order; the gauss draws of the two worlds are their own.        *)
(***************************************************************************)
\* lines 203-208: the trajectories and the minimum distances start
Entered(w) ==
    [w EXCEPT !.paths = InitPaths(<<>>, path_record_bodies),
              !.events.outcome_dists = InitDists(@, outcome_record_bodies)]

\* the marble pairs that start to touch in the space step of world w
BegunDynamic(w) ==
    DynamicOrder(Begun(Touching(UpdatePositions(w.bodies), StaticWalls(walls)).dynamic,
                       w.contacts.dynamic))

\* one iteration of the loop on world w: g the gauss draws of the step,
\* first the order in which the arbiter lists each pair that starts to touch
Stepped(w, g, first) ==
    LET statics == StaticWalls(walls)
        sampled == RecordPaths(w.paths, w.bodies, path_record_bodies)
        dists == SampleDists(w.events.outcome_dists, w.bodies, outcome_record_bodies)
        moved == UpdatePositions(w.bodies)
        touching == Touching(moved, statics)
        begun_static == StaticOrder(Begun(touching.static, w.contacts.static))
        begun_dynamic == DynamicOrder(Begun(touching.dynamic, w.contacts.dynamic))
        logged == BeginStatic(
                      BeginDynamic([w.events EXCEPT !.outcome_dists = dists],
                                   begun_dynamic, first, w.step),
                      begun_static, statics, w.step)
        pushed == [n \in DOMAIN moved |->
                      [moved[n] EXCEPT !.velocity =
                          delayed_velocity(@, marbles[n], w.step, g[n])]]
        resolved == ResolveMarbles(
                        ResolveWalls(pushed,
                                     Solved(StaticOrder(touching.static),
                                            wall_collision_returns),
                                     statics),
                        Solved(DynamicOrder(touching.dynamic),
                               marble_collision_returns))
    IN  [step |-> w.step + 1, events |-> logged, bodies |-> resolved,
         contacts |-> touching, paths |-> sampled]

\* the noise multiplications of the step s, for the history
Noised(s) ==
    LET noising == SelectSeq(NameOrder, LAMBDA n :
                       n \in DOMAIN marbles /\ NoiseFires(s, marbles[n].noisy))
    IN  [i \in 1..Len(noising) |->
            [name |-> noising[i], step |-> s, sigma |-> velocity_noise]]

\* lines 233-237: the outcome of every tracked body
Returned(w) ==
    [w EXCEPT !.events.outcome = Outcomes(@, w.bodies, outcome_record_bodies)]

\* A sent along the exit row towards E without noise; E alone with its noise
\* never, at the first step, at the last step, past the horizon
TwinWorlds ==
    ExitRowWorlds \cup
    {[n \in {"E"} |-> [position |-> <<302, 300>>, velocity |-> <<-1, 0>>,
                       delay |-> 0, noisy |-> ns]] : ns \in Scheds}

TwinInit ==
    \E ms \in TwinWorlds :
        /\ Built(ms, <<>>, <<"E">>, <<"E">>, default_velocity_noise)
        /\ twin = NewWorld(ms)
        /\ sweep = NoSweep

TwinBegin ==
    /\ pc = "constructed"
    /\ paths' = Entered(World).paths
    /\ events' = Entered(World).events
    /\ twin' = Entered(twin)
    /\ pc' = "loop"
    /\ UNCHANGED <<config, step, bodies, contacts, launch_log, noise_log,
                   constructed_noise, sweep>>

TwinIteration ==
    /\ pc = "loop"
    /\ Running(step)
    /\ LET pairs == IF Len(BegunDynamic(World)) > Len(BegunDynamic(twin))
                    THEN Len(BegunDynamic(World)) ELSE Len(BegunDynamic(twin))
       IN  \E g1 \in NoiseDraws(marbles, step, velocity_noise),
              g2 \in NoiseDraws(marbles, twin.step, velocity_noise),
              first \in [1..pairs -> {1, 2}] :
              LET next == Stepped(World, g1, first)
              IN  /\ paths' = next.paths
                  /\ events' = next.events
                  /\ bodies' = next.bodies
                  /\ contacts' = next.contacts
                  /\ step' = next.step
                  /\ noise_log' = noise_log \o Noised(step)
                  /\ twin' = Stepped(twin, g2, first)
    /\ UNCHANGED <<config, pc, launch_log, constructed_noise, sweep>>

TwinEnd ==
    /\ pc = "loop"
    /\ ~Running(step)
    /\ events' = Returned(World).events
    /\ twin' = Returned(twin)
    /\ pc' = "done"
    /\ UNCHANGED <<config, step, bodies, contacts, paths, launch_log, noise_log,
                   constructed_noise, sweep>>

TwinNext == TwinBegin \/ TwinIteration \/ TwinEnd

TwinSpec == TwinInit /\ [][TwinNext]_vars

(***************************************************************************)
(* run_all: a sweep of trials over delay, angle and magnitude of one       *)
(* marble. `marbles` is trial['marbles'], which run_all writes in place.   *)
(***************************************************************************)
\* cos and sin of an angle in degrees, for the multiples of 90 (the float
\* residue of math.cos(math.radians(90)), of the order of 1e-16, is left out)
Cos(angle) == IF angle = 180 THEN -1 ELSE IF angle = 0 THEN 1 ELSE 0
Sin(angle) == IF angle = 90 THEN 1 ELSE IF angle = 270 THEN -1 ELSE 0

\* line 37: the velocity of the varied marble
SweepVelocity(angle, magn) ==
    <<(Cos(angle) * magn) \div 10, (Sin(angle) * magn) \div 10>>

\* the order in which the three nested loops visit the combinations
Combos(delay_range, angle_range, magn_range) ==
    LET la == Len(angle_range)
        lm == Len(magn_range)
    IN  [i \in 1..(Len(delay_range) * la * lm) |->
            [delay |-> delay_range[((i - 1) \div (la * lm)) + 1],
             angle |-> angle_range[(((i - 1) \div lm) % la) + 1],
             magn |-> magn_range[((i - 1) % lm) + 1]]]

\* a count of the trials in which the target is through, whatever was asked
CountsThrough(through, outcome) == outcome

\* a return that leaves the swept entry in place
NotRestored(ms, var, orig_var) == ms

\* line 43: whether a trial counts
Counts(through, outcome) == (~through) # outcome

\* line 46: the entry of the varied marble is put back
Restored(ms, var, orig_var) == [ms EXCEPT ![var] = orig_var]

\* a trial of two marbles on the exit row, both with a launch and a noise of
\* their own
SweepTrial ==
    [n \in {"A", "E"} |->
        IF n = "A"
        THEN [position |-> <<500, 300>>, velocity |-> <<0, -1>>, delay |-> 0,
              noisy |-> 1]
        ELSE [position |-> <<300, 300>>, velocity |-> <<1, 0>>, delay |-> -1,
              noisy |-> step_max + 1]]

DelayRange == [i \in 1..(MaxSched + 1) |-> i - 1]
AngleRanges == {<<90, 180>>, <<180>>}
MagnRanges == {<<10, 20>>, <<>>}

\* run_all(trial, target, var, through, ...) has been called
RunAllInit ==
    \E target \in {"E"}, var \in {"A", "E"}, through \in BOOLEAN,
       angle_range \in AngleRanges, magn_range \in MagnRanges :
        /\ marbles = SweepTrial
        /\ walls = default_walls
        /\ path_record_bodies = <<>>
        /\ outcome_record_bodies = <<>>
        /\ velocity_noise = default_velocity_noise
        /\ constructed_noise = default_velocity_noise
        /\ step = NewWorld(<<>>).step
        /\ events = NewWorld(<<>>).events
        /\ bodies = NewWorld(<<>>).bodies
        /\ contacts = NewWorld(<<>>).contacts
        /\ paths = NewWorld(<<>>).paths
        /\ launch_log = <<>>
        /\ noise_log = <<>>
        /\ pc = "none"
        /\ twin = NoTwin
        /\ sweep = [pc |-> "called", target |-> target, var |-> var,
                    through |-> through,
                    combos |-> Combos(DelayRange, angle_range, magn_range),
                    before |-> SweepTrial,
                    orig_var |-> <<>>, count |-> 0, total |-> 0,
                    written |-> <<>>]

\* lines 26-30
RunAllBegin ==
    /\ sweep.pc = "called"
    /\ marbles' = [marbles EXCEPT ![sweep.var].noisy = -1]
    /\ sweep' = [sweep EXCEPT !.pc = "sweeping", !.count = 0, !.total = 0,
                              !.orig_var = marbles[sweep.var]]
    /\ UNCHANGED <<walls, path_record_bodies, outcome_record_bodies,
                   velocity_noise, step, events, bodies, contacts, paths,
                   launch_log, noise_log, pc, constructed_noise, twin>>

\* lines 33-39 and run_trial up to the constructor: the next combination is
\* written into the trial and a world is built from it
TrialBegin ==
    /\ sweep.pc = "sweeping"
    /\ sweep.total < Len(sweep.combos)
    /\ LET c == sweep.combos[sweep.total + 1]
           ms == [marbles EXCEPT
                    ![sweep.var].velocity = SweepVelocity(c.angle, c.magn),
                    ![sweep.var].delay = c.delay]
       IN  /\ marbles' = ms
           /\ step' = NewWorld(ms).step
           /\ events' = NewWorld(ms).events
           /\ bodies' = NewWorld(ms).bodies
           /\ contacts' = NewWorld(ms).contacts
           /\ paths' = NewWorld(ms).paths
    /\ path_record_bodies' = <<>>
    /\ outcome_record_bodies' = <<sweep.target>>
    /\ constructed_noise' = velocity_noise
    /\ launch_log' = <<>>
    /\ noise_log' = <<>>
    /\ pc' = "constructed"
    /\ sweep' = [sweep EXCEPT !.pc = "trial"]
    /\ UNCHANGED <<walls, velocity_noise, twin>>

\* lines 40-44: the events of the trial are written out and counted
TrialEnd ==
    /\ sweep.pc = "trial"
    /\ pc = "done"
    /\ sweep' = [sweep EXCEPT
                    !.pc = "sweeping",
                    !.written = Append(@, [config |-> marbles[sweep.var],
                                           outcome |-> events.outcome[sweep.target]]),
                    !.total = @ + 1,
                    !.count = IF Counts(sweep.through, events.outcome[sweep.target])
                              THEN @ + 1 ELSE @]
    /\ UNCHANGED <<config, step, events, bodies, contacts, paths, launch_log,
                   noise_log, pc, constructed_noise, twin>>

\* lines 46-47
RunAllEnd ==
    /\ sweep.pc = "sweeping"
    /\ sweep.total = Len(sweep.combos)
    /\ marbles' = Restored(marbles, sweep.var, sweep.orig_var)
    /\ sweep' = [sweep EXCEPT !.pc = "returned"]
    /\ UNCHANGED <<walls, path_record_bodies, outcome_record_bodies,
                   velocity_noise, step, events, bodies, contacts, paths,
                   launch_log, noise_log, pc, constructed_noise, twin>>

RunAllNext == RunAllBegin \/ TrialBegin \/ Next \/ TrialEnd \/ RunAllEnd

RunAllSpec == RunAllInit /\ [][RunAllNext]_vars

(***************************************************************************)
(* Notions the properties below are stated in.                             *)
(***************************************************************************)
IsPrefix(s, t) == Len(s) <= Len(t) /\ SubSeq(t, 1, Len(s)) = s
Appended(s, t) == SubSeq(t, Len(s) + 1, Len(t))
NondecreasingSteps(log) ==
    \A i \in 1..Len(log) : \A j \in i..Len(log) : log[i].step <= log[j].step

\* one stepper iteration: the loop is entered and not left
Iteration == pc = "loop" /\ pc' = "loop"

Names2(objects) == {objects[1], objects[2]}
Touched(n) ==
    \/ \E i \in 1..Len(events.collisions) : n \in Names2(events.collisions[i].objects)
    \/ \E i \in 1..Len(events.wall_bounces) : n \in Names2(events.wall_bounces[i].objects)

InHorizon(s) == s \in 0..step_max
LaunchesOf(n) == SelectSeq(launch_log, LAMBDA e : e.name = n)
NoisesOf(n) == SelectSeq(noise_log, LAMBDA e : e.name = n)

\* the log holds one entry, of step s, once step s of the run is over, and
\* none if the run has no step s
FiredOnceAt(log, s) ==
    /\ Len(log) = (IF InHorizon(s) /\ (step > s) THEN 1 ELSE 0)
    /\ \A i \in 1..Len(log) : log[i].step = s
    /\ pc = "done" => Len(log) = (IF InHorizon(s) THEN 1 ELSE 0)

InArena(pos) == pos[1] \in 0..full_length /\ pos[2] \in 0..full_height

\* pairs of bodies, whether a pair overlaps at the positions bs, and the
\* entries of a log that name a pair
MarblePairs == {c \in (DOMAIN bodies) \X (DOMAIN bodies) : Index(c[1]) < Index(c[2])}
StaticPairs == (DOMAIN bodies) \X (1..Len(StaticWalls(walls)))
TouchingNow(bs, c) == TouchesMarble(bs[c[1]].position, bs[c[2]].position)
TouchingWallNow(bs, c) == TouchesWall(bs[c[1]].position, StaticWalls(walls)[c[2]])
EntriesOf(log, names) == SelectSeq(log, LAMBDA e : Names2(e.objects) = names)
WallEntriesOf(log, c) ==
    SelectSeq(log, LAMBDA e : e.objects = <<c[1], StaticWalls(walls)[c[2]].name>>)

(***************************************************************************)
(* C1: the collisions list and the wall_bounces list are each              *)
(* nondecreasing in 'step' from first entry to last, and an iteration only *)
(* appends to them: recorded entries are never modified or removed.        *)
(***************************************************************************)
C1_EventsNondecreasing ==
    /\ [](NondecreasingSteps(events.collisions)
          /\ NondecreasingSteps(events.wall_bounces))
    /\ [][/\ IsPrefix(events.collisions, events.collisions')
          /\ IsPrefix(events.wall_bounces, events.wall_bounces')
          /\ \A i \in 1..Len(Appended(events.collisions, events.collisions')) :
                \A j \in 1..Len(events.collisions) :
                    events.collisions[j].step
                        <= Appended(events.collisions, events.collisions')[i].step
          /\ \A i \in 1..Len(Appended(events.wall_bounces, events.wall_bounces')) :
                \A j \in 1..Len(events.wall_bounces) :
                    events.wall_bounces[j].step
                        <= Appended(events.wall_bounces, events.wall_bounces')[i].step
         ]_vars

\* two collisions and two wall bounces at different steps have been logged
C1_Witness ==
    /\ Len(events.collisions) >= 2
    /\ events.collisions[1].step < events.collisions[2].step
    /\ Len(events.wall_bounces) >= 2
    /\ events.wall_bounces[1].step < events.wall_bounces[2].step

(***************************************************************************)
(* C2: a marble with launch velocity v and launch step d inside the run,   *)
(* whose noise never fires and which no body has touched: every velocity   *)
(* sampled at a step < d is (0, 0); the impulse is applied once, at step   *)
(* d, and changes the velocity by exactly v * speed, so that the marble    *)
(* rests up to step d and moves at v * speed after it.                     *)
(***************************************************************************)
C2_LaunchOnceAtDelay ==
    \A n \in DOMAIN marbles :
        LET m == marbles[n]
            launches == LaunchesOf(n)
        IN  (InHorizon(m.delay) /\ ~InHorizon(m.noisy) /\ ~Touched(n)) =>
              /\ n \in DOMAIN paths =>
                    \A k \in 1..Len(paths[n].velocity) :
                        k - 1 < m.delay => paths[n].velocity[k] = <<0, 0>>
              /\ Len(launches) = (IF step > m.delay THEN 1 ELSE 0)
              /\ \A i \in 1..Len(launches) :
                    /\ launches[i].step = m.delay
                    /\ VecSub(launches[i].after, launches[i].before)
                          = VecScale(speed, m.velocity)
              /\ bodies[n].velocity =
                    (IF step > m.delay THEN VecScale(speed, m.velocity) ELSE <<0, 0>>)

\* a run has ended in which the marble was launched at the last step of
\* the run, after step_max samples at rest
C2_Witness ==
    /\ pc = "done"
    /\ marbles["E"].delay = step_max
    /\ ~InHorizon(marbles["E"].noisy)
    /\ ~Touched("E")
    /\ Len(paths["E"].velocity) > step_max
    /\ \A k \in 1..step_max : paths["E"].velocity[k] = <<0, 0>>
    /\ Len(LaunchesOf("E")) = 1
    /\ bodies["E"].velocity = VecScale(speed, marbles["E"].velocity)
    /\ bodies["E"].velocity # <<0, 0>>

(***************************************************************************)
(* C3: when the run is over, the outcome of every outcome-tracked body is  *)
(* true iff its final x position is <= -marble_size/2, whatever positions  *)
(* it had before.                                                          *)
(***************************************************************************)
C3_OutcomeIffExited ==
    pc = "done" =>
        \A i \in 1..Len(outcome_record_bodies) :
            LET n == outcome_record_bodies[i]
            IN  /\ n \in DOMAIN events.outcome
                /\ events.outcome[n] = (2 * bodies[n].position[1] <= -marble_size)

\* a run has ended with the tracked body exactly on the line, and passed
C3_Witness ==
    /\ pc = "done"
    /\ 2 * bodies["E"].position[1] = -marble_size
    /\ events.outcome["E"] = TRUE

(***************************************************************************)
(* C4: every run ends, and only with the horizon exhausted: the step       *)
(* counter starts at 0, never decreases, grows by exactly 1 in each        *)
(* stepper iteration and by nothing else, and the loop is left only when   *)
(* the counter has passed every step up to step_max, whatever was logged   *)
(* and wherever the tracked bodies are.                                    *)
(***************************************************************************)
C4_RunsFullHorizon ==
    /\ step = 0
    /\ [][/\ step' >= step
          /\ Iteration => step' = step + 1
          /\ ~Iteration => step' = step
          /\ (pc = "loop" /\ pc' = "done") => step >= step_max
         ]_vars
    /\ <>(pc = "done")

\* the loop is still running although the tracked body has left through
\* the exit and events have been logged
C4_Witness ==
    /\ pc = "loop"
    /\ step < step_max
    /\ 2 * bodies["E"].position[1] <= -marble_size
    /\ Len(events.collisions) > 0

(***************************************************************************)
(* C5: step_max is 750, a run performs exactly step_max stepper            *)
(* iterations (one sample and one physics update each), and the step       *)
(* counter equals step_max when the loop has ended.                        *)
(***************************************************************************)
C5_ExactlyStepMaxIterations ==
    /\ step_max = 750
    /\ pc = "done" =>
          /\ step = step_max
          /\ \A n \in DOMAIN paths : Len(paths[n].position) = step_max

(***************************************************************************)
(* C6: outcome_dists is a running minimum: the value of a tracked body     *)
(* never increases, and after an iteration it is at most the squared exit  *)
(* distance of the position the body had before the iteration's physics    *)
(* update.                                                                 *)
(***************************************************************************)
C6_RunningMinimum ==
    [][\A n \in DOMAIN events.outcome_dists :
          /\ n \in DOMAIN events'.outcome_dists
          /\ events'.outcome_dists[n] <= events.outcome_dists[n]
          /\ Iteration => events'.outcome_dists[n] <= exit_dist(bodies[n].position)
      ]_vars

\* the body has come closer to the exit than it is now: the minimum is a
\* sample of an earlier step
C6_Witness ==
    /\ pc = "loop"
    /\ "E" \in DOMAIN events.outcome_dists
    /\ events.outcome_dists["E"] < InitialDist
    /\ Len(paths["E"].position) >= 3
    /\ events.outcome_dists["E"] < exit_dist(paths["E"].position[Len(paths["E"].position)])
    /\ events.outcome_dists["E"] < exit_dist(paths["E"].position[1])

(***************************************************************************)
(* C7: outcome_dists starts from the squared diagonal of the arena,        *)
(* full_length^2 + full_height^2, an upper bound of the squared exit       *)
(* distance inside the arena; so when the run is over outcome_dists is     *)
(* exactly the least squared exit distance sampled during the run.         *)
(***************************************************************************)
C7_MinimumOfSamples ==
    /\ pc = "loop" /\ step = 0 =>
          \A n \in DOMAIN events.outcome_dists :
              events.outcome_dists[n] = full_length * full_length + full_height * full_height
    /\ pc = "done" =>
          \A n \in DOMAIN events.outcome_dists :
              (n \in DOMAIN paths /\ InArena(marbles[n].position)) =>
                  /\ \E k \in 1..Len(paths[n].position) :
                        events.outcome_dists[n] = exit_dist(paths[n].position[k])
                  /\ \A k \in 1..Len(paths[n].position) :
                        events.outcome_dists[n] <= exit_dist(paths[n].position[k])

\* C7, its consequence alone: when the run is over outcome_dists is the
\* least squared exit distance sampled during the run
C7_ResultOnly ==
    pc = "done" =>
        \A n \in DOMAIN events.outcome_dists :
            (n \in DOMAIN paths /\ InArena(marbles[n].position)) =>
                /\ \E k \in 1..Len(paths[n].position) :
                      events.outcome_dists[n] = exit_dist(paths[n].position[k])
                /\ \A k \in 1..Len(paths[n].position) :
                      events.outcome_dists[n] <= exit_dist(paths[n].position[k])

(***************************************************************************)
(* C8: two marbles that come into contact produce exactly one collisions   *)
(* entry for that contact, with the two marbles' names and the first step  *)
(* at which they touch; while they stay in contact in the following steps  *)
(* no further entry for the pair is appended.                              *)
(***************************************************************************)
C8_OneEntryPerContact ==
    [][Iteration =>
        /\ \A c \in MarblePairs :
              LET new == EntriesOf(Appended(events.collisions, events'.collisions),
                                   {c[1], c[2]})
                  touched_before == step > 0 /\ TouchingNow(bodies, c)
              IN  /\ (TouchingNow(bodies', c) /\ ~touched_before) =>
                        /\ Len(new) = 1
                        /\ new[1].step = step
                  /\ (TouchingNow(bodies', c) /\ touched_before) => new = <<>>
                  /\ ~TouchingNow(bodies', c) => new = <<>>
        /\ \A i \in 1..Len(Appended(events.collisions, events'.collisions)) :
              \E c \in MarblePairs :
                  Names2(Appended(events.collisions, events'.collisions)[i].objects)
                      = {c[1], c[2]}
      ]_vars

\* A has run into E, the two are in contact for the third step in a row,
\* and the contact has one entry
C8_Witness ==
    /\ pc = "loop"
    /\ Len(LaunchesOf("A")) = 1
    /\ TouchingNow(bodies, <<"A", "E">>)
    /\ Len(events.collisions) = 1
    /\ Names2(events.collisions[1].objects) = {"A", "E"}
    /\ step = events.collisions[1].step + 3

(***************************************************************************)
(* C9: each contact yields one logged event for every step it lasts: a     *)
(* contact of k consecutive steps has k entries, one per step with that    *)
(* step's index, and never more than one in a step.                        *)
(***************************************************************************)
C9_OneEntryPerStepOfContact ==
    [][Iteration =>
        /\ \A c \in MarblePairs :
              LET new == EntriesOf(Appended(events.collisions, events'.collisions),
                                   {c[1], c[2]})
              IN  /\ Len(new) <= 1
                  /\ TouchingNow(bodies', c) => (Len(new) = 1 /\ new[1].step = step)
        /\ \A c \in StaticPairs :
              LET new == WallEntriesOf(Appended(events.wall_bounces, events'.wall_bounces), c)
              IN  /\ Len(new) <= 1
                  /\ TouchingWallNow(bodies', c) => (Len(new) = 1 /\ new[1].step = step)
      ]_vars

\* C9 as amended: each contact yields one logged event, in the step in
\* which it begins, and none in the further steps it lasts; a pair that
\* does not touch yields none.
C9_OneEntryPerContactBegun ==
    [][Iteration =>
        /\ \A c \in MarblePairs :
              Len(EntriesOf(Appended(events.collisions, events'.collisions), {c[1], c[2]}))
                  = (IF TouchingNow(bodies', c) /\ ~(step > 0 /\ TouchingNow(bodies, c))
                     THEN 1 ELSE 0)
        /\ \A c \in StaticPairs :
              Len(WallEntriesOf(Appended(events.wall_bounces, events'.wall_bounces), c))
                  = (IF TouchingWallNow(bodies', c)
                        /\ ~(step > 0 /\ TouchingWallNow(bodies, c))
                     THEN 1 ELSE 0)
        /\ \A i \in 1..Len(Appended(events.collisions, events'.collisions)) :
              Appended(events.collisions, events'.collisions)[i].step = step
        /\ \A i \in 1..Len(Appended(events.wall_bounces, events'.wall_bounces)) :
              Appended(events.wall_bounces, events'.wall_bounces)[i].step = step
      ]_vars

\* a contact of two marbles has lasted five steps and has one entry, and
\* a wall has been met since
C9_Witness ==
    /\ pc = "loop"
    /\ TouchingNow(bodies, <<"A", "E">>)
    /\ Len(events.collisions) = 1
    /\ step >= events.collisions[1].step + 5
    /\ Len(events.wall_bounces) > 0

(***************************************************************************)
(* C10: a launch or a noise action whose step is outside 0..step_max       *)
(* (the sentinel -1 included) never fires and leaves the velocity alone;   *)
(* an action whose step is inside 0..step_max, both ends included, fires   *)
(* exactly once, in the iteration whose step counter equals it, and at no  *)
(* later step.                                                             *)
(***************************************************************************)
C10_ScheduleFiresOnceInHorizon ==
    \A n \in DOMAIN marbles :
        /\ FiredOnceAt(LaunchesOf(n), marbles[n].delay)
        /\ FiredOnceAt(NoisesOf(n), marbles[n].noisy)
        /\ (~InHorizon(marbles[n].delay) /\ ~Touched(n)) =>
              bodies[n].velocity = <<0, 0>>
        /\ (~InHorizon(marbles[n].noisy) /\ ~Touched(n) /\ Len(LaunchesOf(n)) = 1) =>
              bodies[n].velocity = VecScale(speed, marbles[n].velocity)

\* a run has ended in which the launch at step_max fired and the noise at
\* step_max + 1 did not
C10_Witness ==
    /\ pc = "done"
    /\ marbles["E"].delay = step_max
    /\ marbles["E"].noisy = step_max + 1
    /\ Len(LaunchesOf("E")) = 1
    /\ LaunchesOf("E")[1].step = step_max
    /\ NoisesOf("E") = <<>>
    /\ bodies["E"].velocity = VecScale(speed, marbles["E"].velocity)

(***************************************************************************)
(* C11: a configuration in which two bodies share a name is rejected when  *)
(* the world is constructed, so no simulation step is ever run on it.      *)
(***************************************************************************)
SharedName ==
    \/ \E i \in 1..Len(walls) : \E j \in 1..Len(walls) :
          i # j /\ walls[i].name = walls[j].name
    \/ \E i \in 1..Len(walls) : walls[i].name \in DOMAIN marbles

C11_SharedNameNeverSteps == SharedName => step = 0

(***************************************************************************)
(* C12: the noise magnitude a world uses is the one in force when it was   *)
(* constructed: every perturbation the world applies is drawn with that    *)
(* magnitude, whatever the class attribute is set to afterwards.           *)
(***************************************************************************)
C12_NoiseAsConstructed ==
    \A i \in 1..Len(noise_log) : noise_log[i].sigma = constructed_noise

(***************************************************************************)
(* C13: when the noise step of a marble is its launch step d, the impulse  *)
(* is applied first and the two noise factors then scale the launched      *)
(* velocity; with a noise magnitude of zero both factors are exactly 1 and *)
(* the velocity after step d is the launch velocity times speed.           *)
(***************************************************************************)
Scaled(v, g) == <<(v[1] * g[1]) \div 100, (v[2] * g[2]) \div 100>>
NoiseAt(n, s) == SelectSeq(noise_log, LAMBDA e : e.name = n /\ e.step = s)

C13_LaunchThenNoise ==
    \A i \in 1..Len(launch_log) :
        LET e == launch_log[i]
            m == marbles[e.name]
            launched == VecAdd(e.before, VecScale(speed, m.velocity))
            noises == NoiseAt(e.name, e.step)
        IN  m.noisy = m.delay =>
              /\ Len(noises) = 1
              /\ e.after = Scaled(launched, e.noise)
              /\ noises[1].sigma = 0 =>
                    /\ e.noise = <<100, 100>>
                    /\ e.after = launched
                    /\ e.before = <<0, 0>> /\ step = e.step + 1 =>
                          bodies[e.name].velocity = VecScale(speed, m.velocity)

C13_Witness ==
    /\ marbles["E"].noisy = marbles["E"].delay
    /\ step = marbles["E"].delay + 1
    /\ Len(NoiseAt("E", marbles["E"].delay)) = 1
    /\ NoiseAt("E", marbles["E"].delay)[1].sigma = 0
    /\ bodies["E"].velocity = VecScale(speed, marbles["E"].velocity)

(***************************************************************************)
(* C14: a contact of two marbles that begins is entered in `collisions`    *)
(* and not in `wall_bounces`, a contact of a marble and a wall in          *)
(* `wall_bounces` and not in `collisions`; the entry carries the two names *)
(* and the step counter; and the contact is solved all the same: the       *)
(* marble no longer moves into the wall, the two marbles no longer         *)
(* approach each other.                                                    *)
(***************************************************************************)
WallNames == {StaticWalls(walls)[i].name : i \in 1..Len(StaticWalls(walls))}
IntoWall(b, w) ==
    LET n == VecSub(b.position, Nearest(w, b.position))
    IN  n[1] * b.velocity[1] < 0 \/ n[2] * b.velocity[2] < 0
Approaching(a, b) ==
    Dot(VecSub(a.velocity, b.velocity), VecSub(a.position, b.position)) < 0
InDynamic(n, cs) == \E c \in cs : n \in {c[1], c[2]}

C14_ContactsFiledByKind ==
    [][Iteration =>
        LET begun_dynamic == contacts'.dynamic \ contacts.dynamic
            begun_static == contacts'.static \ contacts.static
            new_collisions == Appended(events.collisions, events'.collisions)
            new_bounces == Appended(events.wall_bounces, events'.wall_bounces)
        IN  /\ IsPrefix(events.collisions, events'.collisions)
            /\ IsPrefix(events.wall_bounces, events'.wall_bounces)
            /\ Len(new_collisions) = Cardinality(begun_dynamic)
            /\ Len(new_bounces) = Cardinality(begun_static)
            /\ \A c \in begun_dynamic : \E i \in 1..Len(new_collisions) :
                  /\ Names2(new_collisions[i].objects) = {c[1], c[2]}
                  /\ new_collisions[i].step = step
            /\ \A c \in begun_static : \E i \in 1..Len(new_bounces) :
                  /\ new_bounces[i].objects = <<c[1], StaticWalls(walls)[c[2]].name>>
                  /\ new_bounces[i].step = step
            /\ \A c \in begun_static :
                  ~InDynamic(c[1], contacts'.dynamic) =>
                      ~IntoWall(bodies'[c[1]], StaticWalls(walls)[c[2]])
            /\ \A c \in begun_dynamic :
                  ~Approaching(bodies'[c[1]], bodies'[c[2]])
    ]_vars

\* a marble and a wall, and two marbles, have met
C14_Witness ==
    /\ Len(events.collisions) > 0
    /\ Len(events.wall_bounces) > 0
    /\ \E i \in 1..Len(events.wall_bounces) :
          events.wall_bounces[i].objects[2] \in WallNames

(***************************************************************************)
(* C15: two worlds built from the same configuration agree on collisions,  *)
(* wall_bounces, outcome, outcome_dists, trajectories and bodies for as    *)
(* long as no noise step has been run, and to the end when no noise step   *)
(* lies in the horizon; the random source is consulted at the noise step   *)
(* of a marble and at no other step.                                       *)
(***************************************************************************)
NoNoiseYet ==
    \A n \in DOMAIN marbles :
        InHorizon(marbles[n].noisy) => step <= marbles[n].noisy

C15_NoiseTellsApart == twin # NoTwin /\ twin.bodies # bodies

(***************************************************************************)
(* C16: an iteration samples position and velocity as they are before the  *)
(* physics update, takes that position into the running minimum, runs the  *)
(* update, then counts the step. So sample k (from 0) is the state after k *)
(* updates, an event logged in the iteration carries the index of the      *)
(* sample just taken, and the state after the last update makes the        *)
(* outcome without being sampled.                                          *)
(***************************************************************************)
SamplesOf(n) == paths[n].position
Recorded(names) == {names[i] : i \in 1..Len(names)}

C16_SampleThenStep ==
    /\ [](pc \in {"loop", "done"} =>
            \A n \in Recorded(path_record_bodies) :
                /\ Len(paths[n].position) = step
                /\ Len(paths[n].velocity) = step)
    /\ [](pc = "done" =>
            \A n \in Recorded(outcome_record_bodies) :
                events.outcome[n] = Passed(bodies[n].position))
    /\ [][Iteration =>
            /\ step' = step + 1
            /\ \A n \in Recorded(path_record_bodies) :
                  /\ paths'[n].position = Append(paths[n].position, bodies[n].position)
                  /\ paths'[n].velocity = Append(paths[n].velocity, bodies[n].velocity)
            /\ \A n \in Recorded(outcome_record_bodies) :
                  events'.outcome_dists[n] =
                      IF exit_dist(bodies[n].position) < events.outcome_dists[n]
                      THEN exit_dist(bodies[n].position)
                      ELSE events.outcome_dists[n]
            /\ \A e \in Recorded(Appended(events.collisions, events'.collisions))
                        \cup Recorded(Appended(events.wall_bounces, events'.wall_bounces)) :
                  /\ e.step = step
                  /\ \A n \in Recorded(path_record_bodies) :
                        e.step = Len(paths'[n].position) - 1
       ]_vars

\* a run has ended with a collision logged, and the last update has moved
\* the recorded marble off its last sample
C16_Witness ==
    /\ pc = "done"
    /\ Len(events.collisions) > 0
    /\ Len(SamplesOf("A")) = step
    /\ bodies["A"].position # SamplesOf("A")[Len(SamplesOf("A"))]

(***************************************************************************)
(* C17: no static body is made for a wall named 'exit', in the default     *)
(* walls or in the extra walls, and no event names 'exit'; every other     *)
(* wall of the two lists is a static body of the space.                    *)
(***************************************************************************)
StaticBodies == StaticWalls(walls)
EventNames ==
    UNION {Names2(events.collisions[i].objects) : i \in 1..Len(events.collisions)}
    \cup UNION {Names2(events.wall_bounces[i].objects) :
                    i \in 1..Len(events.wall_bounces)}

\* the number of walls named otherwise among the first k walls
RECURSIVE OtherThanExit(_)
OtherThanExit(k) ==
    IF k = 0 THEN 0
    ELSE OtherThanExit(k - 1) + (IF walls[k].name # "exit" THEN 1 ELSE 0)

C17_ExitIsNoBody ==
    /\ \A i \in 1..Len(StaticBodies) : StaticBodies[i].name # "exit"
    /\ "exit" \notin EventNames
    /\ Len(StaticBodies) = OtherThanExit(Len(walls))
    /\ \A k \in 1..Len(walls) :
          walls[k].name # "exit" =>
              StaticBodies[OtherThanExit(k)] = walls[k]

\* a marble has gone through the exit opening, also past an extra wall named
\* 'exit', and no event was logged
C17_Witness ==
    /\ pc = "done"
    /\ "E" \in DOMAIN events.outcome
    /\ events.outcome["E"]
    /\ EventNames = {}
    /\ \E k \in 1..Len(walls) : k > Len(default_walls) /\ walls[k].name = "exit"

\* a marble has bounced off an extra wall
C17_ObstacleWitness ==
    /\ pc = "done"
    /\ "obstacle" \in EventNames

(***************************************************************************)
(* C19: when simulate returns, events['outcome'] and                       *)
(* events['outcome_dists'] have the same keys: the names listed in         *)
(* outcome_record_bodies, no other and none missing.                       *)
(***************************************************************************)
C19_OutcomeKeys ==
    pc = "done" =>
        /\ DOMAIN events.outcome = Recorded(outcome_record_bodies)
        /\ DOMAIN events.outcome_dists = Recorded(outcome_record_bodies)

\* a world of two marbles has returned the outcome of the one it tracks
C19_Witness ==
    /\ pc = "done"
    /\ DOMAIN bodies = {"A", "E"}
    /\ outcome_record_bodies = <<"E">>
    /\ DOMAIN events.outcome = {"E"}
    /\ DOMAIN events.outcome_dists = {"E"}

(***************************************************************************)
(* C18: run_all runs one trial for every combination of delay, angle and   *)
(* magnitude, in the order of its loops, each with the noise of the varied *)
(* marble switched off; total counts the trials run and ends as the number *)
(* of combinations, count counts the trials in which the outcome of the    *)
(* target equals `through`, and 0 <= count <= total.                       *)
(***************************************************************************)
InRunAll == sweep.pc \in {"sweeping", "trial", "returned"}
TrialsWith(outcome) ==
    {i \in 1..Len(sweep.written) : sweep.written[i].outcome = outcome}

C18_OneTrialPerCombination ==
    InRunAll =>
        /\ sweep.total = Len(sweep.written)
        /\ sweep.total <= Len(sweep.combos)
        /\ \A i \in 1..Len(sweep.written) :
              LET c == sweep.combos[i]
                  m == sweep.written[i].config
              IN  /\ m.delay = c.delay
                  /\ m.velocity = SweepVelocity(c.angle, c.magn)
                  /\ m.noisy = -1
        /\ sweep.pc = "trial" =>
              /\ marbles[sweep.var].noisy = -1
              /\ \A i \in 1..Len(noise_log) : noise_log[i].name # sweep.var
        /\ sweep.count = Cardinality(TrialsWith(sweep.through))
        /\ 0 <= sweep.count /\ sweep.count <= sweep.total
        /\ sweep.pc = "returned" => sweep.total = Len(sweep.combos)

\* a sweep that asked for the trials in which the target stays inside has
\* returned, with trials of either outcome
C18_Witness ==
    /\ sweep.pc = "returned"
    /\ ~sweep.through
    /\ sweep.total = Len(sweep.combos)
    /\ 0 < sweep.count /\ sweep.count < sweep.total
    /\ sweep.count = Cardinality(TrialsWith(FALSE))

(***************************************************************************)
(* C20: when run_all returns, the entry of the varied marble in the        *)
(* caller's trial has the position, velocity, delay and noisy it had       *)
(* before the call, and the entries of the other marbles are never         *)
(* written during the sweep.                                               *)
(***************************************************************************)
C20_TrialLeftAsFound ==
    sweep.pc # "none" =>
        /\ \A n \in DOMAIN marbles : n # sweep.var => marbles[n] = sweep.before[n]
        /\ DOMAIN marbles = DOMAIN sweep.before
        /\ sweep.pc = "returned" => marbles[sweep.var] = sweep.before[sweep.var]

\* a sweep that has overwritten velocity and noisy of the varied marble in
\* its trials has returned
C20_Witness ==
    /\ sweep.pc = "returned"
    /\ sweep.total > 0
    /\ sweep.written[sweep.total].config # sweep.before[sweep.var]
    /\ sweep.written[sweep.total].config.noisy # sweep.before[sweep.var].noisy
    /\ marbles = sweep.before

====
